---- MODULE Spec2Model ----
(***************************************************************************)
(* The CSV ingestion pipeline of the FastAPI application:                  *)
(*   app/api/v1/endpoints/user.py   upload_csv, get_process_status         *)
(*   app/services/csv_processor.py  process_csv_async (the producer)       *)
(*   app/core/worker_pool.py        WorkerPool (queue, registry, workers)  *)
(* All tasks run on one asyncio event loop, so every action below is the   *)
(* code a task executes between two suspensions (an await that really      *)
(* waits): an await of queue.put on a queue with room, or of queue.get on  *)
(* a queue with entries, does not suspend and is part of the same action.  *)
(***************************************************************************)
EXTENDS Integers, Sequences, FiniteSets, Bags, TLC

\* settings.NUM_WORKERS (5 in config.py), scaled down for model checking.
NUM_WORKERS == 2
\* settings.CHUNK_SIZE (1000 in config.py), scaled down.
CHUNK_SIZE == 2
\* settings.MAX_QUEUE_SIZE (10 in config.py), scaled down.
MAX_QUEUE_SIZE == 2

\* Bounds of the model.
MaxUploads == 2      \* upload_csv requests accepted in one behaviour
MaxRows == 3         \* data rows of an uploaded file
\* Distinct addresses id(file_content) can return: one for each upload, so
\* that a new buffer can always be allocated.
MaxAddr == MaxUploads
\* Cap on processed_chunks of an entry whose total_chunks is 0.
MaxProcessed == MaxRows

VARIABLES
    queue,              \* WorkerPool.queue: the entries (batch, file_id), oldest first
    unfinished,         \* WorkerPool.queue._unfinished_tasks
    processing_status,  \* WorkerPool.processing_status: file_id -> entry
    tasks,              \* the process_csv_async tasks, by upload number
    workers,            \* the db_worker tasks: position and the entry they hold
    db,                 \* rows committed to the users table, as a bag of batches
    ev                  \* the last step taken (history, read by the properties only)

vars == <<queue, unfinished, processing_status, tasks, workers, db, ev>>

Workers == 1..NUM_WORKERS
Uploads == 1..MaxUploads
Addrs == 1..MaxAddr

Min(a, b) == IF a <= b THEN a ELSE b

---------------------------------------------------------------------------
\* Strings are sequences of characters, so that endswith and + are computed.

CsvSuffix == <<".", "c", "s", "v">>
NameCsvA == <<"a">> \o CsvSuffix
NameCsvB == <<"b">> \o CsvSuffix
NameTxt == <<"a", ".", "t", "x", "t">>
NameBare == <<"c", "s", "v">>
FileNames == {NameCsvA, NameCsvB, NameTxt, NameBare}

\* str.endswith
EndsWith(s, suffix) ==
    /\ Len(s) >= Len(suffix)
    /\ SubSeq(s, Len(s) - Len(suffix) + 1, Len(s)) = suffix

\* str(id(file_content)) for the addresses of the model (one digit each)
Digits == <<"1", "2", "3", "4", "5", "6", "7", "8", "9">>
StrOfId(addr) == <<Digits[addr]>>

\* file_id = filename + "_" + str(id(file_content))
FileId(filename, addr) == filename \o <<"_">> \o StrOfId(addr)

---------------------------------------------------------------------------
\* The uploaded bytes: the number of data rows, and what is wrong with them.
\*   "utf8"   not valid UTF-8: file_content.decode raises
\*   "parse"  pd.read_csv raises in the full scan (an empty file, a ragged row)
\*   "column" a column of FirstName/LastName/Age/Email is absent: row[...] raises
\* The rows of a file that fails before or in the scan do not matter (0 stands
\* for any number), and a file without a required column fails at its first
\* row whatever follows it (1 stands for any number of rows above 0; with no
\* row there is nothing to convert, and the file behaves as a flawless one).
Flaws == {"none", "utf8", "parse", "column"}
Contents ==
    [rows : 0..MaxRows, flaw : {"none"}]
        \cup [rows : {0}, flaw : {"utf8", "parse"}] \cup [rows : {1}, flaw : {"column"}]

\* total_chunks = (len(df) + CHUNK_SIZE - 1) // CHUNK_SIZE
TotalChunks(n) == (n + CHUNK_SIZE - 1) \div CHUNK_SIZE

\* The users list built from chunk k of upload u: row i of the file is <<u, i>>.
Users(u, n, k) ==
    [i \in 1..(Min(k * CHUNK_SIZE, n) - (k - 1) * CHUNK_SIZE)
        |-> <<u, (k - 1) * CHUNK_SIZE + i>>]

\* What iterating pd.read_csv(file_stream, chunksize=CHUNK_SIZE) yields: the
\* chunks of up to CHUNK_SIZE rows; a file of a header and no rows yields one
\* empty chunk.  obj is the identity of the list object.
Chunks(u, n) ==
    IF n = 0
    THEN << [obj |-> <<u, 1>>, users |-> <<>>] >>
    ELSE [k \in 1..TotalChunks(n) |-> [obj |-> <<u, k>>, users |-> Users(u, n, k)]]

---------------------------------------------------------------------------
NoEntry == [batch |-> [obj |-> <<0, 0>>, users |-> <<>>], file_id |-> <<>>]
NoError == "<absent>"
NoTask == [pc |-> "none", filename |-> <<>>, addr |-> 0, content |-> [rows |-> 0, flaw |-> "none"], sent |-> 0]

Init ==
    /\ queue = <<>>
    /\ unfinished = 0
    /\ processing_status = <<>>
    /\ tasks = [u \in Uploads |-> NoTask]
    /\ workers = [w \in Workers |-> [pc |-> "get", held |-> NoEntry]]
    /\ db = EmptyBag
    /\ ev = [op |-> "init", who |-> 0, filename |-> <<>>, file_id |-> <<>>,
             batch |-> NoEntry.batch, note |-> ""]

Registered == DOMAIN processing_status

\* An address is in use while the task that holds file_content has not ended.
LiveAddrs == {tasks[u].addr : u \in {v \in Uploads : tasks[v].pc \in {"created", "put"}}}

\* The addresses a new buffer can get: one that a buffer since released had,
\* or one never used before (the lowest stands for all of them).
UsedAddrs == {tasks[u].addr : u \in {v \in Uploads : tasks[v].pc # "none"}}
FreeAddrs ==
    LET fresh == Addrs \ UsedAddrs
    IN  (UsedAddrs \ LiveAddrs)
            \cup (IF fresh = {} THEN {} ELSE {CHOOSE a \in fresh : \A b \in fresh : a <= b})

\* The history variable's values: a request, a step of a producer, a step of a worker.
UploadEvent(u, filename, fid, note) ==
    [op |-> "upload_csv", who |-> u, filename |-> filename, file_id |-> fid,
     batch |-> NoEntry.batch, note |-> note]
ProducerEvent(u, fid, note) ==
    [op |-> "process_csv_async", who |-> u, filename |-> tasks[u].filename, file_id |-> fid,
     batch |-> NoEntry.batch, note |-> note]
WorkerEvent(op, w, entry, note) ==
    [op |-> op, who |-> w, filename |-> <<>>, file_id |-> entry.file_id,
     batch |-> entry.batch, note |-> note]

---------------------------------------------------------------------------
\* upload_csv (POST /upload-csv/)

\* The slot of the next request: uploads are numbered in the order they arrive.
NextUpload == {u \in Uploads : tasks[u].pc = "none" /\ \A v \in 1..(u - 1) : tasks[v].pc # "none"}

\* Mutant of ValidFileType: the suffix is compared without its dot.
ValidFileTypeNoDot(filename) == EndsWith(filename, <<"c", "s", "v">>)

\* if not file.filename.endswith('.csv'): raise HTTPException(400, ...)
ValidFileType(filename) == EndsWith(filename, CsvSuffix)

upload_csv(filename, content) ==
    \E u \in NextUpload :
        IF ~ValidFileType(filename)
        THEN /\ ev' = UploadEvent(u, filename, <<>>, "400 invalid file type")
             /\ UNCHANGED <<queue, unfinished, processing_status, tasks, workers, db>>
        ELSE \E addr \in FreeAddrs :
             \* file_content = await file.read(); asyncio.create_task(process_csv_async(...))
             /\ tasks' = [tasks EXCEPT ![u] = [pc |-> "created", filename |-> filename,
                                               addr |-> addr, content |-> content, sent |-> 0]]
             /\ ev' = UploadEvent(u, filename, FileId(filename, addr), "200 processing started")
             /\ UNCHANGED <<queue, unfinished, processing_status, workers, db>>

---------------------------------------------------------------------------
\* process_csv_async

TaskFileId(u) == FileId(tasks[u].filename, tasks[u].addr)

\* Queue.full()
Full(q) == Len(q) >= MAX_QUEUE_SIZE

\* Mutant of PutsThatFit: a queue built without maxsize never suspends a put.
PutsThatFitUnbounded(q, left) == left

\* How many of `left` successive queue.put calls complete before one suspends.
PutsThatFit(q, left) == Min(MAX_QUEUE_SIZE - Len(q), left)

\* The registry entry process_csv_async creates.
NewEntry(filename, total) ==
    [filename |-> filename, total_chunks |-> total, processed_chunks |-> 0,
     progress |-> <<0, 1>>, status |-> "processing", error |-> NoError]

\* processing_status[file_id] = {...}
Register(reg, fid, filename, total) == (fid :> NewEntry(filename, total)) @@ reg

\* Mutant of MarkCompleted: a job that has been streamed is removed from the registry.
MarkCompletedAndForget(reg, fid) == [g \in DOMAIN reg \ {fid} |-> reg[g]]

\* worker_pool.processing_status[file_id]["status"] = "completed"
MarkCompleted(reg, fid) == [reg EXCEPT ![fid].status = "completed"]

\* The except clause: status = "failed", error = str(e)
MarkFailed(reg, fid, error) == [reg EXCEPT ![fid].status = "failed", ![fid].error = error]

\* The for loop from chunk sent+1 on, up to the put that suspends or to the end
\* of the file, and then the statement after the loop.
StreamChunks(u, reg, sent) ==
    LET fid == TaskFileId(u)
        chunks == Chunks(u, tasks[u].content.rows)
        m == PutsThatFit(queue, Len(chunks) - sent)
    IN  /\ queue' = queue \o [i \in 1..m |-> [batch |-> chunks[sent + i], file_id |-> fid]]
        /\ unfinished' = unfinished + m
        /\ IF sent + m = Len(chunks)
           THEN /\ processing_status' = MarkCompleted(reg, fid)
                /\ tasks' = [tasks EXCEPT ![u].pc = "done", ![u].sent = sent + m]
                /\ ev' = ProducerEvent(u, fid, "completed")
           ELSE /\ processing_status' = reg
                /\ tasks' = [tasks EXCEPT ![u].pc = "put", ![u].sent = sent + m]
                /\ ev' = ProducerEvent(u, fid, "put suspended")

\* The exception handler of process_csv_async, entered with the registry as `reg`.
HandleError(u, reg, error) ==
    LET fid == TaskFileId(u)
    IN  /\ tasks' = [tasks EXCEPT ![u].pc = "raised"]
        /\ UNCHANGED <<queue, unfinished>>
        /\ IF fid \in DOMAIN reg
           THEN /\ processing_status' = MarkFailed(reg, fid, error)
                /\ ev' = ProducerEvent(u, fid, "failed")
           ELSE \* processing_status[file_id] raises KeyError inside the handler
                /\ processing_status' = reg
                /\ ev' = ProducerEvent(u, fid, "KeyError")

\* The task's first run, from its start to its first suspension or its end.
ProducerStart(u) ==
    /\ tasks[u].pc = "created"
    /\ UNCHANGED <<workers, db>>
    /\ LET c == tasks[u].content
           fid == TaskFileId(u)
           reg == Register(processing_status, fid, tasks[u].filename, TotalChunks(c.rows))
       IN  CASE c.flaw = "utf8" ->
                  \* file_content.decode('utf-8') is outside the try
                  /\ tasks' = [tasks EXCEPT ![u].pc = "raised"]
                  /\ ev' = ProducerEvent(u, fid, "UnicodeDecodeError")
                  /\ UNCHANGED <<queue, unfinished, processing_status>>
             [] c.flaw = "parse" -> HandleError(u, processing_status, "ParserError")
             [] c.flaw = "column" /\ c.rows > 0 -> HandleError(u, reg, "KeyError")
             [] OTHER -> StreamChunks(u, reg, 0)

\* A suspended queue.put resumes once the queue has room.
ProducerResume(u) ==
    /\ tasks[u].pc = "put"
    /\ ~Full(queue)
    /\ UNCHANGED <<workers, db>>
    /\ StreamChunks(u, processing_status, tasks[u].sent)

---------------------------------------------------------------------------
\* WorkerPool.db_worker

\* (processed / total) * 100, kept exact as the fraction numerator / denominator
Progress(processed, total) == <<processed * 100, total>>

\* Mutant of CountChunk: the increment is applied to every entry of the registry.
CountChunkEverywhere(reg, fid) ==
    [g \in DOMAIN reg |-> [reg[g] EXCEPT !.processed_chunks = @ + 1]]

\* self.processing_status[file_id]["processed_chunks"] += 1
CountChunk(reg, fid) == [reg EXCEPT ![fid].processed_chunks = @ + 1]

\* Mutant of SetProgress: progress is not recomputed after the increment.
SetProgressStale(reg, fid) == reg

\* self.processing_status[file_id]["progress"] = (processed / total) * 100
SetProgress(reg, fid) ==
    [reg EXCEPT ![fid].progress = Progress(reg[fid].processed_chunks, reg[fid].total_chunks)]

\* self.queue.task_done()
TaskDone(n) == n - 1

\* Queue.put_nowait: the entry goes to the tail
Enqueue(q, entry) == Append(q, entry)

\* The top of the loop, reached with the queue as q: queue.get() returns at
\* once when the queue has an entry, and suspends when it has none.
LoopToGet(w, q) ==
    IF q # <<>>
    THEN /\ workers' = [workers EXCEPT ![w] = [pc |-> "commit", held |-> Head(q)]]
         /\ queue' = Tail(q)
    ELSE /\ workers' = [workers EXCEPT ![w] = [pc |-> "get", held |-> NoEntry]]
         /\ queue' = q

\* A worker suspended in queue.get() resumes when the queue has an entry, and
\* suspends again in db_session.commit().
WorkerGet(w) ==
    /\ workers[w].pc = "get"
    /\ queue # <<>>
    /\ LoopToGet(w, queue)
    /\ ev' = WorkerEvent("get", w, Head(queue), "")
    /\ UNCHANGED <<unfinished, processing_status, tasks, db>>

\* db_session.commit() returns: the batch is in the table.  Then lines 24-30,
\* the finally clause and the next queue.get().
CommitOK(w) ==
    LET e == workers[w].held
        fid == e.file_id
    IN  /\ workers[w].pc = "commit"
        \* the one counter no input bounds: an entry with total_chunks = 0 is
        \* incremented at every retry of its batch
        /\ (fid \in Registered /\ processing_status[fid].total_chunks = 0)
              => processing_status[fid].processed_chunks < MaxProcessed
        /\ db' = db (+) SetToBag({e.batch})
        /\ UNCHANGED tasks
        /\ IF fid \notin Registered
           THEN \* the logging.info line raises KeyError: the inner except clause
                /\ workers' = [workers EXCEPT ![w].pc = "rollback"]
                /\ ev' = WorkerEvent("commit", w, e, "KeyError")
                /\ UNCHANGED <<queue, unfinished, processing_status>>
           ELSE IF processing_status[fid].total_chunks = 0
           THEN \* processed / total raises ZeroDivisionError after the increment
                /\ processing_status' = CountChunk(processing_status, fid)
                /\ workers' = [workers EXCEPT ![w].pc = "rollback"]
                /\ ev' = WorkerEvent("commit", w, e, "ZeroDivisionError")
                /\ UNCHANGED <<queue, unfinished>>
           ELSE /\ processing_status' = SetProgress(CountChunk(processing_status, fid), fid)
                /\ unfinished' = TaskDone(unfinished)
                /\ LoopToGet(w, queue)
                /\ ev' = WorkerEvent("commit", w, e, "ok")

\* Mutant of CommitFail: task_done is called when the write fails, before the
\* batch is re-enqueued.
CommitFailTaskDoneFirst(w) ==
    /\ workers[w].pc = "commit"
    /\ workers' = [workers EXCEPT ![w].pc = "rollback"]
    /\ unfinished' = TaskDone(unfinished)
    /\ ev' = WorkerEvent("commit", w, workers[w].held, "write failed")
    /\ UNCHANGED <<queue, processing_status, tasks, db>>

\* db_session.commit() raises: the inner except clause is entered.
CommitFail(w) ==
    /\ workers[w].pc = "commit"
    /\ workers' = [workers EXCEPT ![w].pc = "rollback"]
    /\ ev' = WorkerEvent("commit", w, workers[w].held, "write failed")
    /\ UNCHANGED <<queue, unfinished, processing_status, tasks, db>>

\* Mutant of Rollback: a write failure marks the batch's job failed.
RollbackMarksFailed(w) ==
    /\ workers[w].pc = "rollback"
    /\ workers' = [workers EXCEPT ![w].pc = "sleep"]
    /\ ev' = WorkerEvent("rollback", w, workers[w].held, "")
    /\ processing_status' =
         [processing_status EXCEPT ![workers[w].held.file_id].status = "failed"]
    /\ UNCHANGED <<queue, unfinished, tasks, db>>

\* await db_session.rollback() returns; the worker sleeps.
Rollback(w) ==
    /\ workers[w].pc = "rollback"
    /\ workers' = [workers EXCEPT ![w].pc = "sleep"]
    /\ ev' = WorkerEvent("rollback", w, workers[w].held, "")
    /\ UNCHANGED <<queue, unfinished, processing_status, tasks, db>>

\* await self.queue.put((batch, file_id)) completes; then the finally clause
\* and the next queue.get().
Requeue(w) ==
    /\ unfinished' = TaskDone(unfinished + 1)
    /\ LoopToGet(w, Enqueue(queue, workers[w].held))
    /\ ev' = WorkerEvent("requeue", w, workers[w].held, "")
    /\ UNCHANGED <<processing_status, tasks, db>>

\* asyncio.sleep(1) returns; queue.put completes at once unless the queue is full.
Backoff(w) ==
    /\ workers[w].pc = "sleep"
    /\ IF Full(queue)
       THEN /\ workers' = [workers EXCEPT ![w].pc = "put"]
            /\ ev' = WorkerEvent("backoff", w, workers[w].held, "put suspended")
            /\ UNCHANGED <<queue, unfinished, processing_status, tasks, db>>
       ELSE Requeue(w)

\* A worker suspended in queue.put resumes once the queue has room.
WorkerPut(w) ==
    /\ workers[w].pc = "put"
    /\ ~Full(queue)
    /\ Requeue(w)

---------------------------------------------------------------------------
\* The steps of the tasks the event loop runs.
TaskStep ==
    \/ \E u \in Uploads : ProducerStart(u)
    \/ \E u \in Uploads : ProducerResume(u)
    \/ \E w \in Workers : WorkerGet(w)
    \/ \E w \in Workers : CommitOK(w)
    \/ \E w \in Workers : CommitFail(w)
    \/ \E w \in Workers : Rollback(w)
    \/ \E w \in Workers : Backoff(w)
    \/ \E w \in Workers : WorkerPut(w)

Next ==
    \/ \E filename \in FileNames, content \in Contents : upload_csv(filename, content)
    \/ TaskStep

Spec == Init /\ [][Next]_vars

\* The same program when every uploaded file is a well-formed CSV file with at
\* least one data row.
PlainContents == [rows : 1..MaxRows, flaw : {"none"}]

NextPlain ==
    \/ \E filename \in FileNames, content \in PlainContents : upload_csv(filename, content)
    \/ TaskStep

SpecPlain == Init /\ [][NextPlain]_vars

\* The event loop runs every task that can run, and no write fails for ever:
\* a worker whose commit can succeed again and again does commit.
Fairness ==
    /\ \A u \in Uploads : WF_vars(ProducerStart(u)) /\ WF_vars(ProducerResume(u))
    /\ \A w \in Workers :
          /\ WF_vars(WorkerGet(w))
          /\ SF_vars(CommitOK(w))
          /\ WF_vars(Rollback(w))
          /\ WF_vars(Backoff(w))
          /\ WF_vars(WorkerPut(w))

SpecPlainFair == Init /\ [][NextPlain]_vars /\ Fairness

---------------------------------------------------------------------------
\* The pool's lifecycle and the outer exception handler of db_worker.

\* Mutant of RollbackFail: the exception of the rollback is not caught by the
\* outer handler and ends the worker task.
RollbackFailUncaught(w) ==
    /\ workers[w].pc = "rollback"
    /\ unfinished' = TaskDone(unfinished)
    /\ workers' = [workers EXCEPT ![w] = [pc |-> "cancelled", held |-> NoEntry]]
    /\ ev' = WorkerEvent("rollback", w, workers[w].held, "critical")
    /\ UNCHANGED <<queue, processing_status, tasks, db>>

\* await db_session.rollback() raises inside the inner except clause: the
\* finally clause calls task_done, the outer except clause logs the error and
\* sleeps.  The batch is not re-enqueued.
RollbackFail(w) ==
    /\ workers[w].pc = "rollback"
    /\ unfinished' = TaskDone(unfinished)
    /\ workers' = [workers EXCEPT ![w] = [pc |-> "critical", held |-> NoEntry]]
    /\ ev' = WorkerEvent("rollback", w, workers[w].held, "critical")
    /\ UNCHANGED <<queue, processing_status, tasks, db>>

\* The sleep of the outer handler returns: the loop goes on with queue.get().
CriticalBackoff(w) ==
    /\ workers[w].pc = "critical"
    /\ LoopToGet(w, queue)
    /\ ev' = WorkerEvent("backoff", w, NoEntry, "critical")
    /\ UNCHANGED <<unfinished, processing_status, tasks, db>>

\* Where Task.cancel() reaches a worker: every position is an await, and the
\* CancelledError is raised there when the task next runs.
CancelAt(pc) ==
    CASE pc \in {"get", "critical"} -> "cancel_idle"
      [] pc = "commit" -> "cancel_commit"
      [] pc \in {"rollback", "sleep", "put"} -> "cancel_retry"
      [] OTHER -> pc

\* The worker tasks that have not ended and have not been cancelled.
Running == {w \in Workers : workers[w].pc \notin {"cancel_idle", "cancel_commit", "cancel_retry", "cancelled"}}

\* stop_workers: for worker in self.workers: worker.cancel()
stop_workers ==
    /\ Running # {}
    /\ workers' = [w \in Workers |-> [workers[w] EXCEPT !.pc = CancelAt(@)]]
    /\ ev' = [op |-> "stop_workers", who |-> 0, filename |-> <<>>, file_id |-> <<>>,
              batch |-> NoEntry.batch, note |-> ""]
    /\ UNCHANGED <<queue, unfinished, processing_status, tasks, db>>

\* A cancelled worker runs: CancelledError is not an Exception, so no except
\* clause catches it; the finally clause calls task_done when the worker is
\* inside the inner try, and the task ends.  A commit that is interrupted has
\* either reached the table as a whole or not at all.
Cancelled(w) ==
    /\ workers[w].pc \in {"cancel_idle", "cancel_commit", "cancel_retry"}
    /\ workers' = [workers EXCEPT ![w] = [pc |-> "cancelled", held |-> NoEntry]]
    /\ UNCHANGED <<queue, processing_status, tasks>>
    /\ CASE workers[w].pc = "cancel_idle" ->
              /\ ev' = WorkerEvent("cancelled", w, NoEntry, "between iterations")
              /\ UNCHANGED <<unfinished, db>>
         [] workers[w].pc = "cancel_commit" ->
              /\ unfinished' = TaskDone(unfinished)
              /\ \E written \in BOOLEAN :
                    /\ db' = IF written THEN db (+) SetToBag({workers[w].held.batch}) ELSE db
                    /\ ev' = WorkerEvent("cancelled", w, workers[w].held,
                                         IF written THEN "in commit, written" ELSE "in commit, lost")
         [] workers[w].pc = "cancel_retry" ->
              /\ unfinished' = TaskDone(unfinished)
              /\ ev' = WorkerEvent("cancelled", w, workers[w].held, "in retry, lost")
              /\ UNCHANGED db

NextPool ==
    \/ Next
    \/ \E w \in Workers : RollbackFail(w)
    \/ \E w \in Workers : CriticalBackoff(w)
    \/ stop_workers
    \/ \E w \in Workers : Cancelled(w)

\* The program with the pool's shutdown and the failures of the rollback.
SpecPool == Init /\ [][NextPool]_vars

---------------------------------------------------------------------------
\* get_process_status (GET /process-status/): the response carries the
\* registry; its entries are read when the response is serialised on the
\* event loop, between two steps of the tasks.
get_process_status ==
    /\ ev' = [op |-> "get_process_status", who |-> 0, filename |-> <<>>, file_id |-> <<>>,
              batch |-> NoEntry.batch, note |-> "200"]
    /\ UNCHANGED <<queue, unfinished, processing_status, tasks, workers, db>>

NextRead ==
    \/ Next
    \/ get_process_status

\* The program with the status reads.
SpecRead == Init /\ [][NextRead]_vars

---------------------------------------------------------------------------
\* Helpers of the properties.

\* The entries of the queue and those the workers hold.
QueuedEntries == {queue[i] : i \in 1..Len(queue)}
HeldEntries == {workers[w].held : w \in {v \in Workers : workers[v].pc # "get"}}
InFlight(fid) == {e \in QueuedEntries \cup HeldEntries : e.file_id = fid}

\* The last step was process_csv_async setting the status of ev.file_id to "completed".
JustCompleted == ev.op = "process_csv_async" /\ ev.note = "completed"

\* The last step was a commit that ran the increment of line 25.
JustCounted == ev.op = "commit" /\ ev.note \in {"ok", "ZeroDivisionError"}

\* How many times a batch has been committed to the table.
Commits(batch) == CopiesIn(batch, db)

---------------------------------------------------------------------------
\* C1: process_csv_async sets a job's status to "completed" only in a state
\* where the job's processed_chunks equals its total_chunks and none of its
\* batches is still in the queue or held by a worker.
C1_CompletedOnlyWhenDrained ==
    JustCompleted =>
        /\ processing_status[ev.file_id].processed_chunks
             = processing_status[ev.file_id].total_chunks
        /\ InFlight(ev.file_id) = {}

\* C2: for every entry of the registry, under every interleaving of producers
\* and workers, processed_chunks never exceeds total_chunks (the bound the
\* claim states together with monotonicity).
C2_ProcessedBounded ==
    \A fid \in Registered :
        processing_status[fid].processed_chunks <= processing_status[fid].total_chunks

\* C3: a batch increments processed_chunks exactly once, at its successful
\* commit: a step that increments the counter is the first commit of its batch,
\* and a failed write leaves every counter as it was.
C3_CountedExactlyOnce ==
    /\ JustCounted => Commits(ev.batch) = 1
    /\ (ev.op = "commit" /\ ev.note = "write failed") => Commits(ev.batch) = 0

\* Every batch of upload u is in the table.
AllCommitted(u) ==
    LET chunks == Chunks(u, tasks[u].content.rows)
    IN  \A k \in 1..Len(chunks) : Commits(chunks[k]) >= 1
\* C4: with transient write failures and fair scheduling, every batch that
\* process_csv_async enqueues is eventually committed and the job eventually
\* reaches "completed".
C4_EventuallyCommittedAndCompleted ==
    \A u \in Uploads :
        (tasks[u].pc = "created") ~> (tasks[u].pc = "done" /\ AllCommitted(u))

\* C5: the queue never holds more than MAX_QUEUE_SIZE entries, whether put by
\* a producer or re-enqueued by a worker, and no put completes while the queue
\* is full: from a full queue no step adds an entry or advances a producer.
C5_QueueBounded ==
    /\ [](Len(queue) <= MAX_QUEUE_SIZE)
    /\ [][Len(queue) >= MAX_QUEUE_SIZE =>
            /\ Len(queue') <= Len(queue)
            /\ \A u \in Uploads : tasks[u].pc = "put" => tasks'[u] = tasks[u]]_vars
\* A worker has re-enqueued a batch behind another entry while a producer is
\* suspended in put.
C5_Witness ==
    /\ ev.op = "requeue"
    /\ [batch |-> ev.batch, file_id |-> ev.file_id] \in QueuedEntries
    /\ \E u \in Uploads : tasks[u].pc = "put"

\* The entries the producers have enqueued so far, and the number of places an
\* entry is in: queue, workers' hands, table.
Produced ==
    {[batch |-> Chunks(u, tasks[u].content.rows)[k], file_id |-> TaskFileId(u)] :
        <<u, k>> \in {p \in Uploads \X (1..(MaxRows + 1)) : p[2] <= tasks[p[1]].sent}}
Copies(e) ==
    Cardinality({i \in 1..Len(queue) : queue[i] = e})
      + Cardinality({w \in Workers : workers[w].pc # "get" /\ workers[w].held = e})
      + Commits(e.batch)
\* C6: every batch a producer has enqueued is, at all times, in one place
\* only: once in the queue, or held by one worker, or committed once; and
\* every entry in the queue or held by a worker is a produced one, with the
\* records, the order and the file_id it was produced with.
C6_EachBatchInOnePlace ==
    /\ \A e \in Produced : Copies(e) = 1
    /\ QueuedEntries \cup HeldEntries \subseteq Produced

\* C7: when decoding fails in process_csv_async, in the full scan or while the
\* chunks are streamed, the job ends with a registry entry whose status is
\* "failed" and whose error is recorded.
C7_DecodeFailureMarksFailed ==
    (ev.op = "process_csv_async" /\ ev.note \in {"failed", "KeyError"})
        => /\ ev.file_id \in Registered
           /\ processing_status[ev.file_id].status = "failed"
           /\ processing_status[ev.file_id].error # NoError

\* C8: upload_csv with a filename that does not end in ".csv" answers with the
\* invalid-file-type error and changes nothing: no registry entry, no task,
\* nothing enqueued.
C8_InvalidFileTypeChangesNothing ==
    [][(ev'.op = "upload_csv" /\ ~EndsWith(ev'.filename, CsvSuffix))
          => /\ ev'.note = "400 invalid file type"
             /\ UNCHANGED <<queue, unfinished, processing_status, tasks, workers, db>>]_vars
\* A request was rejected while a job is registered and batches are in flight.
C8_Witness ==
    /\ ev.op = "upload_csv"
    /\ ev.note = "400 invalid file type"
    /\ ~EndsWith(ev.filename, CsvSuffix)
    /\ Registered # {}
    /\ queue # <<>>

\* C9: a worker's commit of a batch changes only processed_chunks and progress
\* of the entry under the batch's file_id; every other entry of the registry is
\* left as it was.
C9_CommitTouchesOnlyItsJob ==
    [][ev'.op = "commit"
          => \A fid \in Registered :
                /\ fid \in DOMAIN processing_status'
                /\ fid # ev'.file_id => processing_status'[fid] = processing_status[fid]
                /\ processing_status'[fid].total_chunks = processing_status[fid].total_chunks
                /\ processing_status'[fid].status = processing_status[fid].status
                /\ processing_status'[fid].filename = processing_status[fid].filename
                /\ processing_status'[fid].error = processing_status[fid].error]_vars
\* A commit has just counted a batch of one job while another job, registered
\* under another file_id, has batches in flight.
C9_Witness ==
    /\ ev.op = "commit"
    /\ ev.note = "ok"
    /\ processing_status[ev.file_id].processed_chunks > 0
    /\ \E fid \in Registered \ {ev.file_id} : InFlight(fid) # {}

\* This step sets the status of fid to "failed".
BecomesFailed(fid) ==
    /\ processing_status'[fid].status = "failed"
    /\ fid \in Registered => processing_status[fid].status # "failed"
\* C10: a status becomes "failed" only in the exception handler of
\* process_csv_async, for a file that fails to decode; no step of a worker (a
\* failed write, its rollback, its backoff, its re-enqueue) changes a status.
C10_FailedOnlyOnDecodeError ==
    [][/\ \A fid \in DOMAIN processing_status' :
             BecomesFailed(fid)
                 => /\ ev'.op = "process_csv_async"
                    /\ ev'.note = "failed"
                    /\ ev'.file_id = fid
                    /\ tasks[ev'.who].content.flaw \in {"parse", "column"}
       /\ ev'.op \in {"get", "commit", "rollback", "backoff", "requeue"}
             => \A fid \in Registered :
                   processing_status'[fid].status = processing_status[fid].status]_vars
\* A write has just failed for a batch of a job that is not failed, while
\* another job has been marked failed by its producer.
C10_Witness ==
    /\ ev.op = "commit"
    /\ ev.note = "write failed"
    /\ processing_status[ev.file_id].status # "failed"
    /\ \E fid \in Registered : processing_status[fid].status = "failed"

\* The step is the first run of a process_csv_async task that reaches the
\* assignment of line 18 with the file_id fid.
RegistersStep(fid) ==
    /\ ev'.op = "process_csv_async"
    /\ ev'.file_id = fid
    /\ ev'.who \in Uploads
    /\ tasks[ev'.who].pc = "created"
    /\ tasks[ev'.who].content.flaw \notin {"utf8", "parse"}
\* C11: registering a job under a file_id that is already in processing_status
\* fails and leaves the existing entry (total_chunks, processed_chunks,
\* progress, status) unchanged.
C11_RegisterExistingFails ==
    [][\A fid \in Registered :
          RegistersStep(fid)
              => /\ processing_status'[fid].total_chunks = processing_status[fid].total_chunks
                 /\ processing_status'[fid].processed_chunks = processing_status[fid].processed_chunks
                 /\ processing_status'[fid].progress = processing_status[fid].progress
                 /\ processing_status'[fid].status = processing_status[fid].status]_vars

\* The uploads upload_csv has accepted.
Accepted == {u \in Uploads : tasks[u].pc # "none"}
\* C12: two distinct ingestions never receive the same file_id, even when they
\* upload the same filename and the earlier upload's buffer has been released.
C12_FileIdsDistinct ==
    \A u \in Accepted : \A v \in Accepted \ {u} : TaskFileId(u) # TaskFileId(v)

\* The batches a worker has dequeued and not yet accounted for with task_done.
HeldCount == Cardinality({w \in Workers : workers[w].held # NoEntry})
\* C13: the queue's unfinished-task count covers every entry in the queue and
\* every batch a worker holds (being written, rolled back, awaiting its
\* re-enqueue), so it is above zero, and queue.join() does not return, while
\* any of them exists: the failure path calls task_done only after the put.
C13_UnfinishedCoversInFlight ==
    /\ unfinished = Len(queue) + HeldCount
    /\ (queue # <<>> \/ HeldCount > 0) => unfinished > 0
\* A failed batch, the only one in flight, has just been re-enqueued and
\* accounted for.
C13_Witness ==
    /\ ev.op = "requeue"
    /\ unfinished = 1
    /\ Commits(ev.batch) = 0

\* C14: an exception raised inside a worker's loop iteration (by the write,
\* the lines after it, the rollback) is followed by a backoff and the worker
\* returns to dequeuing: every worker task keeps running, from start_workers
\* on, until stop_workers cancels it.
C14_WorkersSurviveExceptions ==
    /\ Running = Workers
    /\ [][/\ Running' # Running => ev'.op = "stop_workers"
          /\ \A w \in Workers :
                (workers[w].pc = "critical" /\ workers'[w] # workers[w])
                    => workers'[w].pc \in {"get", "commit", "cancel_idle"}]_vars
\* A rollback has raised, the outer handler has slept, and the worker is back
\* at queue.get() with the whole pool running.
C14_Witness ==
    /\ ev.op = "backoff"
    /\ ev.note = "critical"
    /\ workers[ev.who].pc \in {"get", "commit"}
    /\ Running = Workers

\* C15: stop_workers cancels a worker only between loop iterations (suspended
\* in queue.get() or in the outer handler's sleep), never while the worker
\* holds a batch it has dequeued and is writing.
C15_CancelOnlyBetweenIterations ==
    [][ev'.op = "stop_workers"
          => \A w \in Workers : workers[w].pc \in {"get", "critical", "cancelled"}]_vars

\* ceil(n / c), defined by its bounds.
Ceil(n, c) == CHOOSE t \in 0..n : t * c >= n /\ (t = 0 \/ (t - 1) * c < n)
\* C16: a process_csv_async task that has streamed a file of n records has
\* registered total_chunks = ceil(n / CHUNK_SIZE) and enqueued exactly that
\* many batches, each of CHUNK_SIZE records except the last, which holds the
\* remaining n - (total_chunks - 1) * CHUNK_SIZE.
C16_BatchesMatchTotalChunks ==
    JustCompleted =>
        LET u == ev.who
            n == tasks[u].content.rows
            total == Ceil(n, CHUNK_SIZE)
            chunks == Chunks(u, n)
        IN  /\ processing_status[ev.file_id].total_chunks = total
            /\ tasks[u].sent = total
            /\ \A k \in 1..tasks[u].sent :
                  Len(chunks[k].users) = IF k < total THEN CHUNK_SIZE
                                         ELSE n - (total - 1) * CHUNK_SIZE

\* Equality of two fractions <<numerator, denominator>>.
RatEq(p, q) == p[1] * q[2] = q[1] * p[2]
\* C17: in every state a status read can observe, each registered job with
\* total_chunks > 0 has progress = processed_chunks / total_chunks * 100: the
\* increment and the recomputation are never seen apart.
C17_ReadSeesConsistentProgress ==
    \A fid \in Registered :
        processing_status[fid].total_chunks > 0
            => RatEq(processing_status[fid].progress,
                     Progress(processing_status[fid].processed_chunks,
                              processing_status[fid].total_chunks))
\* A status read observes a job some of whose batches are counted and some not.
C17_Witness ==
    /\ ev.op = "get_process_status"
    /\ \E fid \in Registered :
          /\ processing_status[fid].processed_chunks > 0
          /\ processing_status[fid].processed_chunks < processing_status[fid].total_chunks

\* C18: a job is registered before its first batch is enqueued and is never
\* removed: every entry in the queue or held by a worker carries a file_id of
\* the registry, and no commit finds its batch's job unknown.
C18_InFlightJobsRegistered ==
    /\ [](\A e \in QueuedEntries \cup HeldEntries : e.file_id \in Registered)
    /\ [](ev.op = "commit" => ev.note # "KeyError")
    /\ [][Registered \subseteq DOMAIN processing_status']_vars
\* A worker has committed and counted a batch of a job whose producer has
\* ended, while other batches are queued.
C18_Witness ==
    /\ ev.op = "commit"
    /\ ev.note = "ok"
    /\ ev.file_id \in Registered
    /\ processing_status[ev.file_id].status = "completed"
    /\ queue # <<>>

\* C19: the status of a registry entry only moves from "processing" to
\* "completed" or from "processing" to "failed"; once "completed" or "failed"
\* it never changes again.
C19_StatusOnlyMovesForward ==
    [][\A fid \in Registered :
          \/ processing_status'[fid].status = processing_status[fid].status
          \/ /\ processing_status[fid].status = "processing"
             /\ processing_status'[fid].status \in {"completed", "failed"}]_vars

====
